---- MODULE Spec2Model ----
(***************************************************************************)
(* The resumable chunk pipeline of hype_embedder/chunk.py: the checkpoint  *)
(* store (load_progress, save_progress), the append-only record sink       *)
(* (append_records under OUTPUT_LOCK), the per-document task               *)
(* (process_file) and the coordinator (main) that drives a thread pool and *)
(* checkpoints every completion.  A process crash and a restart are part   *)
(* of the model: what is on disk survives, what is in memory does not.     *)
(* SpecResume starts a run from the checkpoints that chunk.py and          *)
(* chack_progress.py leave.  SpecChunk is the chunking function            *)
(* split_into_hierarchical_chunks on its own, character by character,      *)
(* applied to every small document.                                        *)
(***************************************************************************)
EXTENDS Integers, Sequences, FiniteSets, TLC

\* ---------------------------------------------------------------- bounds

\* Executions of main, one after the other, that are followed.
MaxRuns == 2
\* Largest number of chunks (records) one document is turned into.
MaxChunks == 2
\* Threads of the pool (chunk.py:21 reads it from the environment).
MAX_WORKERS == 2

\* ------------------------------------------------------------ the corpus

\* Base file names; the order of the numbers stands for the string order.
Names == {1, 2}
\* The Markdown files that can be in the tree, <<directory, base name>>; rglob
\* descends into every directory below RESOURCE_FOLDER.  One file per name in
\* "a", and a second file of the first name in "b".
AllPaths == {<<"a", n>> : n \in Names} \cup {<<"b", 1>>}

\* Path(p).name: the last component of a path.  A string that names a file is
\* the sequence of its components, <<"a", 1>> for a/1.md and <<1>> for 1.md.
PathName(p) == p[Len(p)]

\* len(split_into_hierarchical_chunks(link, text)) of the file at p: a fixed,
\* non-zero number per file (the file's text does not change).  The files in
\* "a" are short (one chunk), the file in "b" is long.
ChunkCount(p) == IF p[1] = "a" THEN 1 ELSE MaxChunks

\* ----------------------------------------------------------------- state

VARIABLES
    resources,      \* the *.md files under RESOURCE_FOLDER
    progress_file,  \* PROGRESS_FILE on disk: [kind, entries]
    output_log,     \* OUTPUT_FILE on disk: the sequence of its lines
    synced,         \* lines of OUTPUT_FILE that os.fsync has forced to disk
    run,            \* executions of main started so far
    pc,             \* where the coordinating thread (main) is
    done_filenames, \* main's in-memory progress set
    futures,        \* the pool's futures: file -> [st, written]
    yielded,        \* futures as_completed has handed to the loop
    lock,           \* holder of OUTPUT_LOCK, or NoOne
    saves,          \* history: save_progress calls completed in this run
    checkpoint_at_start, \* history: PROGRESS_FILE as this run found it
    log_at_start,   \* history: lines of OUTPUT_FILE when this run started
    text,           \* the document handed to split_into_hierarchical_chunks
    result          \* what that call gave: NotCalled, or [raised, chunks]

\* The variables of a call of the chunking function on its own; the pipeline
\* leaves them alone (it knows a document by its ChunkCount only).
chunker_vars == <<text, result>>

vars == <<resources, progress_file, output_log, synced, run, pc,
          done_filenames, futures, yielded, lock, saves,
          checkpoint_at_start, log_at_start, text, result>>

NotCalled == [raised |-> FALSE, chunks |-> <<>>, called |-> FALSE]

NoOne == <<"", 0>>

Absent == [kind |-> "absent", entries |-> <<>>]
\* The file after open(..., "w") has truncated it and before the text is in it.
Truncated == [kind |-> "partial", entries |-> <<>>]

Range(s) == {s[i] : i \in 1..Len(s)}

MinOf(S) == CHOOSE m \in S : \A x \in S : m <= x

\* sorted(S) for a set of names
RECURSIVE Sorted(_)
Sorted(S) == IF S = {} THEN <<>>
             ELSE <<MinOf(S)>> \o Sorted(S \ {MinOf(S)})

IsSorted(s) == \A i, j \in 1..Len(s) : i < j => s[i] < s[j]

\* {Path(p).name for p in done}, for the strings of a JSON array
EntryNames(entries) == {PathName(entries[i]) : i \in 1..Len(entries)}

\* A loader without line 273: the strings are kept as they are stored, and a
\* stored full path is equal to no base name.
load_progress_verbatim(f) ==
    IF f.kind = "absent" THEN [raised |-> FALSE, value |-> {}]
    ELSE IF f.kind = "json"
         THEN [raised |-> FALSE,
               value |-> {PathName(f.entries[i]) :
                            i \in {j \in 1..Len(f.entries) :
                                     Len(f.entries[j]) = 1}}]
    ELSE [raised |-> TRUE, value |-> {}]

\* A loader that takes a file it cannot parse for an empty one.
load_progress_lenient(f) ==
    IF f.kind = "json" THEN [raised |-> FALSE, value |-> EntryNames(f.entries)]
    ELSE [raised |-> FALSE, value |-> {}]

\* A loader that reads the file without asking whether it exists.
load_progress_strict(f) ==
    IF f.kind = "json" THEN [raised |-> FALSE, value |-> EntryNames(f.entries)]
    ELSE [raised |-> TRUE, value |-> {}]

\* load_progress: the base name of every string in the file (a stored base
\* name or a stored full path), {} when there is no file; json.loads raises on
\* a file that is not a JSON text.
load_progress(f) ==
    IF f.kind = "absent" THEN [raised |-> FALSE, value |-> {}]
    ELSE IF f.kind = "json"
         THEN [raised |-> FALSE, value |-> EntryNames(f.entries)]
    ELSE [raised |-> TRUE, value |-> {}]

\* What save_progress(done) leaves in PROGRESS_FILE once write_text returns:
\* the base names of done, sorted, each a string of one component.
save_progress(done) ==
    [kind |-> "json",
     entries |-> [i \in 1..Cardinality(done) |-> <<Sorted(done)[i]>>]]

\* The files of a set in the order a directory walk lists them (any order).
RECURSIVE Listing(_)
Listing(S) == IF S = {} THEN <<>>
              ELSE LET p == CHOOSE q \in S : TRUE
                   IN <<p>> \o Listing(S \ {p})

\* chack_progress.py, lines 7-39: progress_pre.json gets the full path, below
\* the script's own ./resources/english/, of every file of that tree whose
\* base name is the document_name of a line of the log.
chack_progress(all_files, log) ==
    LET processed_docs == {log[i].document_name : i \in 1..Len(log)}
        found == {p \in all_files : PathName(p) \in processed_docs}
    IN [kind |-> "json",
        entries |-> [i \in 1..Cardinality(found) |->
                        <<"english">> \o Listing(found)[i]]]

\* A filter that lets every file through.
files_to_process_unfiltered(all_files, done) == all_files

\* files_to_process = [p for p in all_files if Path(p).name not in done_filenames]
files_to_process(all_files, done) == {p \in all_files : PathName(p) \notin done}

\* One line of OUTPUT_FILE: the record process_file builds for chunk number seq
\* of the file at p.  The chunk text is the file's own (two files of one name
\* differ in it); link, summary and keywords follow from the name alone and
\* document_id is a fresh uuid4, which nothing reads.
Record(p, seq) == [document_name |-> PathName(p),
                   seq_num |-> seq,
                   chunk |-> <<p, seq>>]

\* A loop that counts the chunks from one: enumerate(chunks, 1).
BlockOf_from_one(p) == [i \in 1..ChunkCount(p) |-> Record(p, i)]

\* process_file, lines 251-263: the list of records, one per chunk in the
\* order of the chunks, seq_num counting from 0 (enumerate).
BlockOf(p) == [i \in 1..ChunkCount(p) |-> Record(p, i - 1)]

TypeOK ==
    /\ resources \subseteq AllPaths
    /\ progress_file.kind \in {"absent", "json", "partial"}
    /\ synced \in 0..Len(output_log)
    /\ run \in 0..MaxRuns
    /\ pc \in {"idle", "loop", "save", "write", "shutdown", "done", "aborted", "crashed"}
    /\ done_filenames \subseteq Names
    /\ DOMAIN futures \subseteq AllPaths
    /\ yielded \subseteq DOMAIN futures

Init ==
    /\ resources = {}
    /\ progress_file = Absent
    /\ output_log = <<>>
    /\ synced = 0
    /\ run = 0
    /\ pc = "idle"
    /\ done_filenames = {}
    /\ futures = <<>>
    /\ yielded = {}
    /\ lock = NoOne
    /\ saves = 0
    /\ checkpoint_at_start = Absent
    /\ log_at_start = 0
    /\ text = <<>>
    /\ result = NotCalled

Alive == pc \in {"loop", "save", "write", "shutdown"}
Stopped == pc \in {"idle", "done", "aborted", "crashed"}

Finished(p) == futures[p].st \in {"returned", "raised"}
\* The tasks that hold a thread of the pool (a task that hangs keeps its own).
Running == {p \in DOMAIN futures :
              futures[p].st \in {"built", "writing", "hung"}}

\* ------------------------------------------------------------ coordinator

\* A main that writes the set it has loaded back to the checkpoint before it
\* looks for work.
StartRun_resaving(tree) ==
    /\ Stopped
    /\ resources' = tree
    /\ run < MaxRuns
    /\ run' = run + 1
    /\ yielded' = {}
    /\ saves' = 0
    /\ lock' = NoOne
    /\ checkpoint_at_start' = progress_file
    /\ log_at_start' = Len(output_log)
    /\ LET r == load_progress(progress_file) IN
         IF r.raised
         THEN /\ pc' = "aborted"
              /\ done_filenames' = {}
              /\ futures' = <<>>
              /\ UNCHANGED progress_file
         ELSE LET todo == files_to_process(tree, r.value) IN
              /\ done_filenames' = r.value
              /\ futures' = [p \in todo |-> [st |-> "queued", written |-> 0]]
              /\ pc' = IF todo = {} THEN "done" ELSE "loop"
              /\ progress_file' = save_progress(r.value)
    /\ UNCHANGED chunker_vars
    /\ UNCHANGED <<output_log, synced>>

\* main, lines 282-309: load the checkpoint, list and filter the files, return
\* when nothing is pending, else submit one task per pending file.
StartRun(tree) ==
    /\ Stopped
    /\ resources' = tree
    /\ run < MaxRuns
    /\ run' = run + 1
    /\ yielded' = {}
    /\ saves' = 0
    /\ lock' = NoOne
    /\ checkpoint_at_start' = progress_file
    /\ log_at_start' = Len(output_log)
    /\ LET r == load_progress(progress_file) IN
         IF r.raised
         THEN /\ pc' = "aborted"
              /\ done_filenames' = {}
              /\ futures' = <<>>
         ELSE LET todo == files_to_process(tree, r.value) IN
              /\ done_filenames' = r.value
              /\ futures' = [p \in todo |-> [st |-> "queued", written |-> 0]]
              /\ pc' = IF todo = {} THEN "done" ELSE "loop"
    /\ UNCHANGED chunker_vars
    /\ UNCHANGED <<progress_file, output_log, synced>>

\* fut.result() of a future as_completed yields: the task's return value, or
\* the task's exception raised again in main.
ResultRaises(p) == futures[p].st = "raised"

\* A loop that adds the name and leaves the save for later.
Collect_batched(p) ==
    /\ pc = "loop"
    /\ p \in DOMAIN futures \ yielded
    /\ Finished(p)
    /\ yielded' = yielded \cup {p}
    /\ IF ResultRaises(p)
       THEN /\ pc' = "shutdown"
            /\ UNCHANGED done_filenames
       ELSE /\ pc' = "loop"
            /\ done_filenames' = done_filenames \cup {PathName(p)}
    /\ UNCHANGED chunker_vars
    /\ UNCHANGED <<resources, progress_file, output_log, synced, run, futures,
                   lock, saves, checkpoint_at_start, log_at_start>>

\* main, lines 310-312: the next completed future; its name joins the set.
\* An exception leaves the for loop and the with block, whose exit is
\* pool.shutdown(wait=True).
Collect(p) ==
    /\ pc = "loop"
    /\ p \in DOMAIN futures \ yielded
    /\ Finished(p)
    /\ yielded' = yielded \cup {p}
    /\ IF ResultRaises(p)
       THEN /\ pc' = "shutdown"
            /\ UNCHANGED done_filenames
       ELSE /\ pc' = "save"
            /\ done_filenames' = done_filenames \cup {PathName(p)}
    /\ UNCHANGED chunker_vars
    /\ UNCHANGED <<resources, progress_file, output_log, synced, run, futures,
                   lock, saves, checkpoint_at_start, log_at_start>>

\* save_progress, write_text: open(PROGRESS_FILE, "w") truncates the file ...
SaveOpen ==
    /\ pc = "save"
    /\ progress_file' = Truncated
    /\ pc' = "write"
    /\ UNCHANGED chunker_vars
    /\ UNCHANGED <<resources, output_log, synced, run, done_filenames,
                   futures, yielded, lock, saves, checkpoint_at_start,
                   log_at_start>>

\* ... and the sorted array is written and the file closed.
SaveWrite ==
    /\ pc = "write"
    /\ progress_file' = save_progress(done_filenames)
    /\ saves' = saves + 1
    /\ pc' = "loop"
    /\ UNCHANGED chunker_vars
    /\ UNCHANGED <<resources, output_log, synced, run, done_filenames,
                   futures, yielded, lock, checkpoint_at_start, log_at_start>>

\* Every future was yielded and succeeded: the with block ends, main returns.
ExitLoop ==
    /\ pc = "loop"
    /\ yielded = DOMAIN futures
    /\ pc' = "done"
    /\ UNCHANGED chunker_vars
    /\ UNCHANGED <<resources, progress_file, output_log, synced, run,
                   done_filenames, futures, yielded, lock, saves,
          checkpoint_at_start, log_at_start>>

\* pool.shutdown(wait=True) after an exception: returns once every submitted
\* task has run; then the exception leaves main and the process ends.
ShutdownDone ==
    /\ pc = "shutdown"
    /\ \A p \in DOMAIN futures : Finished(p)
    /\ pc' = "aborted"
    /\ UNCHANGED chunker_vars
    /\ UNCHANGED <<resources, progress_file, output_log, synced, run,
                   done_filenames, futures, yielded, lock, saves,
          checkpoint_at_start, log_at_start>>

\* ---------------------------------------------------------------- workers

\* A pool that hands a task that raised to a worker again.
BeginTask_retrying(p) ==
    /\ Alive
    /\ p \in DOMAIN futures
    /\ futures[p].st \in {"queued", "raised"}
    /\ Cardinality(Running) < MAX_WORKERS
    /\ \E outcome \in {"built", "raised"} :
         futures' = [futures EXCEPT ![p].st = outcome]
    /\ UNCHANGED chunker_vars
    /\ UNCHANGED <<resources, progress_file, output_log, synced, run, pc,
                   done_filenames, yielded, lock, saves,
                   checkpoint_at_start, log_at_start>>

\* A process_file that appends each record as soon as it is built: a task
\* that raises in the chunking has left its first record in the file.
BeginTask_appending(p) ==
    /\ Alive
    /\ p \in DOMAIN futures
    /\ futures[p].st = "queued"
    /\ Cardinality(Running) < MAX_WORKERS
    /\ \E outcome \in {"built", "raised"} :
         /\ futures' = [futures EXCEPT ![p].st = outcome]
         /\ output_log' = IF outcome = "raised"
                          THEN Append(output_log, BlockOf(p)[1])
                          ELSE output_log
    /\ UNCHANGED chunker_vars
    /\ UNCHANGED <<resources, progress_file, synced, run, pc,
                   done_filenames, yielded, lock, saves,
                   checkpoint_at_start, log_at_start>>

\* A free thread takes a queued task and runs process_file up to the call of
\* append_records (lines 247-263): the records are built, or a step raised
\* (read_text on a file that is gone, line 71 on a text with no "# " line).
BeginTask(p) ==
    /\ Alive
    /\ p \in DOMAIN futures
    /\ futures[p].st = "queued"
    /\ Cardinality(Running) < MAX_WORKERS
    /\ \E outcome \in {"built", "raised"} :
         futures' = [futures EXCEPT ![p].st = outcome]
    /\ UNCHANGED chunker_vars
    /\ UNCHANGED <<resources, progress_file, output_log, synced, run, pc,
                   done_filenames, yielded, lock, saves,
                   checkpoint_at_start, log_at_start>>

\* No lock: a writer never waits.
LockFree_always == TRUE

\* with OUTPUT_LOCK: the lock is free
LockFree == lock = NoOne

\* append_records, lines 238-239: take the lock, open the file for append.
Acquire(p) ==
    /\ Alive
    /\ p \in DOMAIN futures
    /\ futures[p].st = "built"
    /\ LockFree
    /\ lock' = p
    /\ futures' = [futures EXCEPT ![p].st = "writing"]
    /\ UNCHANGED chunker_vars
    /\ UNCHANGED <<resources, progress_file, output_log, synced, run, pc,
                   done_filenames, yielded, saves,
                   checkpoint_at_start, log_at_start>>

\* append_records, line 240: the next line of the payload reaches the file.
WriteLine(p) ==
    /\ Alive
    /\ p \in DOMAIN futures
    /\ futures[p].st = "writing"
    /\ futures[p].written < ChunkCount(p)
    /\ output_log' = Append(output_log, BlockOf(p)[futures[p].written + 1])
    /\ futures' = [futures EXCEPT ![p].written = @ + 1]
    /\ UNCHANGED chunker_vars
    /\ UNCHANGED <<resources, progress_file, synced, run, pc, done_filenames,
                   yielded, lock, saves, checkpoint_at_start, log_at_start>>

\* append_records raises before a line is in the file (the open, or the first
\* write, fails): the with blocks release the lock and the task fails.
WriteFault(p) ==
    /\ Alive
    /\ p \in DOMAIN futures
    /\ futures[p].st = "writing"
    /\ futures[p].written = 0
    /\ futures' = [futures EXCEPT ![p].st = "raised"]
    /\ lock' = NoOne
    /\ UNCHANGED chunker_vars
    /\ UNCHANGED <<resources, progress_file, output_log, synced, run, pc,
                   done_filenames, yielded, saves,
                   checkpoint_at_start, log_at_start>>

\* A sink that returns without forcing anything to disk.
Fsync_omitted(log) == 0

\* What os.fsync leaves forced to disk.
Fsync(log) == Len(log)

\* append_records, lines 241-242, and process_file's return: flush, fsync,
\* close, release the lock, return str(path).
FinishTask(p) ==
    /\ Alive
    /\ p \in DOMAIN futures
    /\ futures[p].st = "writing"
    /\ futures[p].written = ChunkCount(p)
    /\ synced' = Fsync(output_log)
    /\ lock' = NoOne
    /\ futures' = [futures EXCEPT ![p].st = "returned"]
    /\ UNCHANGED chunker_vars
    /\ UNCHANGED <<resources, progress_file, output_log, run, pc,
                   done_filenames, yielded, saves,
                   checkpoint_at_start, log_at_start>>

\* ------------------------------------------------------------ environment

\* The process is killed: threads, the lock and the in-memory set are gone,
\* the two files stay as they are.
Crash ==
    /\ Alive
    /\ pc' = "crashed"
    /\ futures' = <<>>
    /\ yielded' = {}
    /\ done_filenames' = {}
    /\ lock' = NoOne
    /\ saves' = 0
    /\ checkpoint_at_start' = Absent
    /\ log_at_start' = 0
    /\ UNCHANGED chunker_vars
    /\ UNCHANGED <<resources, progress_file, output_log, synced, run>>

Next ==
    \/ \E tree \in SUBSET AllPaths : StartRun(tree)
    \/ \E p \in AllPaths : Collect(p)
    \/ SaveOpen
    \/ SaveWrite
    \/ ExitLoop
    \/ ShutdownDone
    \/ \E p \in AllPaths : BeginTask(p)
    \/ \E p \in AllPaths : Acquire(p)
    \/ \E p \in AllPaths : WriteLine(p)
    \/ \E p \in AllPaths : WriteFault(p)
    \/ \E p \in AllPaths : FinishTask(p)
    \/ Crash

Spec == Init /\ [][Next]_vars

\* ------------------------------------------------- what the claims speak of

\* The names a reader of PROGRESS_FILE finds in it (none in a file that is
\* missing or is not a JSON text).
CheckpointNames(f) == IF f.kind = "json" THEN EntryNames(f.entries) ELSE {}

NamesOf(S) == {PathName(p) : p \in S}

\* An execution of main has started and the process was not killed.
RunStarted == pc \notin {"idle", "crashed"}
\* load_progress raised: main ended before any task was submitted.
LoadFailed == pc = "aborted" /\ DOMAIN futures = {}
\* The checkpoint set this run started from.
StartSet == CheckpointNames(checkpoint_at_start)

\* The file is absent, or a JSON array of base names in strictly ascending
\* order.
WellFormed(f) ==
    \/ f.kind = "absent"
    \/ /\ f.kind = "json"
       /\ \A i \in 1..Len(f.entries) : Len(f.entries[i]) = 1
       /\ IsSorted([i \in 1..Len(f.entries) |-> PathName(f.entries[i])])

\* C1 (resume correctness): a run dispatches a task for exactly the files of the
\* tree whose base name is not in the checkpoint it started from, and a run in
\* which every task succeeded ends with the checkpoint holding exactly the
\* start set and the names of the tree, in ascending order.
C1_ResumeCorrect ==
    (RunStarted /\ ~LoadFailed) =>
        /\ DOMAIN futures = {p \in resources : PathName(p) \notin StartSet}
        /\ pc = "done" =>
              /\ CheckpointNames(progress_file) = StartSet \cup NamesOf(resources)
              /\ WellFormed(progress_file)

\* D = {1}, R = {a/1, a/2, b/1}: exactly a/2 was processed, the file holds [1, 2].
C1_Witness ==
    /\ pc = "done"
    /\ StartSet = {1}
    /\ resources = AllPaths
    /\ DOMAIN futures = {<<"a", 2>>}
    /\ futures[<<"a", 2>>].st = "returned"
    /\ progress_file = [kind |-> "json", entries |-> <<<<1>>, <<2>>>>]

\* C2 (failure isolation), as claimed: when a run has ended, every file whose
\* task succeeded in it is in the persisted checkpoint, whatever happened to
\* the other tasks.
C2_FailureIsolated ==
    pc \in {"done", "aborted"} =>
        \A p \in DOMAIN futures :
            futures[p].st = "returned" =>
                PathName(p) \in CheckpointNames(progress_file)

\* The ChunkCount(p) records of file p, in order, stand at lines i, i+1, ... of
\* the log and have all been forced to disk.
HasBlockAt(p, i) ==
    /\ i + ChunkCount(p) - 1 <= synced
    /\ i + ChunkCount(p) - 1 <= Len(output_log)
    /\ \A j \in 0..(ChunkCount(p) - 1) : output_log[i + j] = Record(p, j)

\* C3 (checkpoint implies durable records): in every state, a crashed one
\* included, every name in the persisted checkpoint has the complete block of
\* records of a file of that name, seq_num 0..k-1, in the synced part of the log.
C3_CheckpointedIsDurable ==
    \A n \in CheckpointNames(progress_file) :
        \E p \in AllPaths :
            /\ PathName(p) = n
            /\ \E i \in 1..Len(output_log) : HasBlockAt(p, i)

\* After a crash in the second run, both names are checkpointed.
C3_Witness ==
    /\ pc = "crashed"
    /\ run = 2
    /\ CheckpointNames(progress_file) = {1, 2}

\* C4 (a failed document stays out), as claimed: a file whose task raised is in
\* neither the in-memory progress set nor the persisted one.
C4_FailedNotInProgress ==
    \A p \in DOMAIN futures :
        futures[p].st = "raised" =>
            /\ PathName(p) \notin done_filenames
            /\ PathName(p) \notin CheckpointNames(progress_file)

\* C5 (no duplicated work), as claimed: no step appends a record whose
\* document_name is already in the persisted checkpoint.
C5_NoAppendAfterCheckpoint ==
    [][output_log' # output_log =>
         output_log'[Len(output_log')].document_name
             \notin CheckpointNames(progress_file)]_vars

\* The lines of this run that hold records of file p.
LinesOf(p) == {i \in (log_at_start + 1)..Len(output_log) :
                 output_log[i].chunk[1] = p}

\* C6 (concurrent write safety): under every interleaving the lines a call of
\* append_records has written form one contiguous block in record order, the
\* log has gained exactly the lines the calls of this run have written, and
\* every line with seq_num > 0 follows the line before it of the same call.
C6_BlocksContiguous ==
    /\ RunStarted =>
          /\ \A p \in DOMAIN futures :
                /\ Cardinality(LinesOf(p)) = futures[p].written
                /\ \A i \in LinesOf(p) :
                      output_log[i] = Record(p, i - MinOf(LinesOf(p)))
                /\ futures[p].st = "returned" => futures[p].written = ChunkCount(p)
          /\ \A i \in (log_at_start + 1)..Len(output_log) :
                output_log[i].chunk[1] \in DOMAIN futures
    /\ \A i \in 1..Len(output_log) :
          output_log[i].seq_num > 0 =>
              /\ i > 1
              /\ output_log[i - 1] =
                     Record(output_log[i].chunk[1], output_log[i].seq_num - 1)

\* Three calls at once: a/1 has appended, b/1 holds the lock in the middle of
\* its block, a/2 waits for the lock.
C6_Witness ==
    /\ DOMAIN futures = AllPaths
    /\ futures[<<"a", 1>>].st = "returned"
    /\ futures[<<"b", 1>>].st = "writing"
    /\ futures[<<"b", 1>>].written = 1
    /\ futures[<<"a", 2>>].st = "built"

\* The successful completions the loop has taken from as_completed.
YieldedOk == {p \in yielded : futures[p].st = "returned"}

\* C7 (single-writer checkpointing): the progress set holds the start set and
\* the names of the completions the coordinator has handled, nothing else;
\* while a save is in progress exactly one handled completion is not yet
\* saved, and otherwise every handled completion has had its own save and the
\* file holds the in-memory set.
C7_CoordinatorCheckpoints ==
    (RunStarted /\ ~LoadFailed) =>
        /\ done_filenames = StartSet \cup NamesOf(YieldedOk)
        /\ pc \in {"save", "write"} => saves = Cardinality(YieldedOk) - 1
        /\ pc \notin {"save", "write"} =>
              /\ saves = Cardinality(YieldedOk)
              /\ IF saves = 0
                 THEN progress_file = checkpoint_at_start
                 ELSE /\ CheckpointNames(progress_file) = done_filenames
                      /\ WellFormed(progress_file)

\* The second completion is being saved while a third waits to be handled.
C7_Witness ==
    /\ pc = "write"
    /\ Cardinality(YieldedOk) = 2
    /\ saves = 1
    /\ \E p \in DOMAIN futures \ yielded : Finished(p)

\* C8 (the checkpoint file is always whole), as claimed: at every instant the
\* file is absent or a whole sorted JSON array.
C8_CheckpointWhole == WellFormed(progress_file)

\* C9 (a corrupt checkpoint stops the run): a run that found a checkpoint file
\* it cannot parse has ended at load_progress with no task submitted, no line
\* appended, the file as it was and an empty progress set.
C9_CorruptStopsRun ==
    (RunStarted /\ checkpoint_at_start.kind = "partial") =>
        /\ pc = "aborted"
        /\ DOMAIN futures = {}
        /\ Len(output_log) = log_at_start
        /\ progress_file = checkpoint_at_start
        /\ done_filenames = {}

\* A run over the whole tree stopped by a truncated checkpoint.
C9_Witness ==
    /\ pc = "aborted"
    /\ checkpoint_at_start.kind = "partial"
    /\ resources = AllPaths

\* C10 (a missing checkpoint is an empty one): a run that found no checkpoint
\* file did not fail in load_progress and dispatched every file of the tree,
\* which is what a file holding an empty array gives.
C10_AbsentIsEmpty ==
    /\ load_progress(Absent) = load_progress([kind |-> "json", entries |-> <<>>])
    /\ (RunStarted /\ checkpoint_at_start.kind = "absent") =>
          /\ ~LoadFailed
          /\ StartSet = {}
          /\ DOMAIN futures = resources

\* A second run, after a crash that left no checkpoint, has every file pending.
C10_Witness ==
    /\ run = 2
    /\ pc = "loop"
    /\ checkpoint_at_start.kind = "absent"
    /\ DOMAIN futures = AllPaths
    /\ output_log # <<>>

\* ------------------------------------------ a run over an older checkpoint

\* The log that earlier runs leave once they have processed the files of S.
RECURSIVE LogOf(_)
LogOf(S) == IF S = {} THEN <<>>
            ELSE LET p == CHOOSE q \in S : TRUE
                 IN BlockOf(p) \o LogOf(S \ {p})

\* Who wrote the PROGRESS_FILE a run finds.
Writers == {"nobody", "save_progress", "chack_progress"}

\* The checkpoint a run can find when the files of S are in the log: none, the
\* sorted base names chunk.py saves, or the full paths chack_progress.py
\* rebuilds from the log and its own copy of the tree.
CheckpointBy(w, S) ==
    IF w = "save_progress" THEN save_progress(NamesOf(S))
    ELSE IF w = "chack_progress" THEN chack_progress(AllPaths, LogOf(S))
    ELSE Absent

InitResume ==
    /\ \E S \in SUBSET AllPaths : \E w \in Writers :
          /\ progress_file = CheckpointBy(w, S)
          /\ output_log = LogOf(S)
    /\ synced = Len(output_log)
    /\ resources = {}
    /\ run = 0
    /\ pc = "idle"
    /\ done_filenames = {}
    /\ futures = <<>>
    /\ yielded = {}
    /\ lock = NoOne
    /\ saves = 0
    /\ checkpoint_at_start = Absent
    /\ log_at_start = 0
    /\ text = <<>>
    /\ result = NotCalled

\* main up to the submission of the tasks, over any tree.
NextResume == \E tree \in SUBSET AllPaths : StartRun(tree)

SpecResume == InitResume /\ [][NextResume]_vars

\* C11 (progress is keyed by base name): what save_progress writes are base
\* names; a run's progress set holds a base name for every string of the
\* checkpoint it found, stored as a base name or as a full path; the files it
\* dispatches are those of the tree with no stored string of the same base
\* name, whatever their directory, which is what the same checkpoint rewritten
\* as base names gives.
C11_KeyedByBaseName ==
    /\ \A D \in SUBSET Names :
          /\ \A i \in 1..Cardinality(D) : Len(save_progress(D).entries[i]) = 1
          /\ load_progress(save_progress(D)).value = D
    /\ (RunStarted /\ ~LoadFailed) =>
          LET stored == IF checkpoint_at_start.kind = "json"
                        THEN checkpoint_at_start.entries ELSE <<>>
              names == {stored[i][Len(stored[i])] : i \in 1..Len(stored)}
          IN /\ done_filenames = names
             /\ DOMAIN futures =
                   {p \in resources : p[Len(p)] \notin names}
             /\ DOMAIN futures =
                   files_to_process(resources,
                       load_progress(save_progress(names)).value)

\* The checkpoint holds the full path english/a/1.md (and english/b/1.md) and
\* the tree is all three files: only a/2.md is dispatched.
C11_Witness ==
    /\ pc = "loop"
    /\ checkpoint_at_start.kind = "json"
    /\ \E i \in 1..Len(checkpoint_at_start.entries) :
          checkpoint_at_start.entries[i] = <<"english", "a", 1>>
    /\ resources = AllPaths
    /\ DOMAIN futures = {<<"a", 2>>}

\* ------------------------------------------------------------- strings
\* A Python str is the sequence of its characters.

NL == "\n"
\* The characters str.strip() removes.
Whitespace == {" ", NL}

\* None, a value that is no str; like "" and [] it is false in a condition.
None == <<"None">>
Truthy(x) == x # None /\ x # <<>>

\* s.startswith(m)
startswith(s, m) == Len(s) >= Len(m) /\ SubSeq(s, 1, Len(m)) = m

RECURSIVE FirstInk(_, _)
FirstInk(s, i) == IF i > Len(s) THEN i
                  ELSE IF s[i] \in Whitespace THEN FirstInk(s, i + 1) ELSE i
RECURSIVE LastInk(_, _)
LastInk(s, i) == IF i < 1 THEN i
                 ELSE IF s[i] \in Whitespace THEN LastInk(s, i - 1) ELSE i

\* s.strip()
strip(s) == SubSeq(s, FirstInk(s, 1), LastInk(s, Len(s)))

\* s.find(sep, i): where sep first starts at or after i, 0 when nowhere
find(s, sep, i) ==
    LET hits == {j \in i..(Len(s) - Len(sep) + 1) :
                   SubSeq(s, j, j + Len(sep) - 1) = sep}
    IN IF hits = {} THEN 0 ELSE MinOf(hits)

\* s.split(sep)
RECURSIVE split(_, _)
split(s, sep) ==
    LET i == find(s, sep, 1)
    IN IF i = 0 THEN <<s>>
       ELSE <<SubSeq(s, 1, i - 1)>> \o split(SubSeq(s, i + Len(sep), Len(s)), sep)

\* s.splitlines(): the pieces between line breaks, without an empty last one
splitlines(s) ==
    LET parts == split(s, <<NL>>)
    IN IF parts[Len(parts)] = <<>> THEN SubSeq(parts, 1, Len(parts) - 1)
       ELSE parts

\* sep.join(ss)
RECURSIVE join(_, _)
join(sep, ss) == IF ss = <<>> THEN <<>>
                 ELSE IF Len(ss) = 1 THEN ss[1]
                 ELSE ss[1] \o sep \o join(sep, Tail(ss))

\* ------------------------------------------------- the chunking function

\* f"Document location: [{doc_location}]({doc_location})"
LinkLine(doc_location) ==
    <<"D", "o", "c", "u", "m", "e", "n", "t", " ", "l", "o", "c", "a", "t", "i", "o", "n", ":", " ", "[">>
    \o doc_location \o <<"]", "(">> \o doc_location \o <<")">>

H1Marker == <<"#", " ">>
H2Marker == <<"#", "#", " ">>
H3Marker == <<"#", "#", "#", " ">>

\* sectionize, lines 75-88, from the state the loop is in
RECURSIVE sectionize_loop(_, _, _, _, _)
sectionize_loop(lines, marker, sections, current_title, current_body) ==
    LET flushed == IF Truthy(current_title) \/ current_body # <<>>
                   THEN Append(sections, [title |-> current_title,
                                          body |-> current_body])
                   ELSE sections
    IN IF lines = <<>> THEN flushed
       ELSE IF startswith(Head(lines), marker)
            THEN sectionize_loop(Tail(lines), marker, flushed,
                                 strip(Head(lines)), <<>>)
            ELSE sectionize_loop(Tail(lines), marker, sections,
                                 current_title, Append(current_body, Head(lines)))

\* A sectionizer without lines 86-87: the pair that is open when the lines
\* end is not appended.
sectionize_no_final_flush(lines, marker) ==
    LET all == sectionize_loop(lines, marker, <<>>, None, <<>>)
    IN SubSeq(all, 1, Len(all) - 1)

\* sectionize(lines, marker): the (title, body) pairs, title None for the
\* lines before the first marker line
sectionize(lines, marker) == sectionize_loop(lines, marker, <<>>, None, <<>>)

\* make_prefixed_chunk: filter(None, ...) drops the empty strings
make_prefixed_chunk(prefix_lines, body_lines) ==
    strip(join(<<NL>>, SelectSeq(prefix_lines \o body_lines,
                                 LAMBDA ln : ln # <<>>)))

\* A rendering that leaves the title of the deeper level out of the prefix.
WithTitle_omitted(prefix, title) == prefix

\* prefix + ([title] if title else [])
WithTitle(prefix, title) ==
    IF Truthy(title) THEN Append(prefix, title) ELSE prefix

\* A returned chunk: its text, and for the reader of the model the number of
\* units that were merged into it and the step that made it ("whole", "h2",
\* "h3" or "para").
Chunk(t, n, step) == [text |-> t, units |-> n, of |-> step]

\* A packer that never closes the buffer: every unit is merged.
pack_fits_always(current_len, section_text, max_chars) == TRUE

\* A fit test that forgets the newline between the buffer and the unit.
pack_fits_no_newline(current_len, section_text, max_chars) ==
    current_len + Len(section_text) <= max_chars

\* line 108: the unit still fits into the buffer
pack_fits(current_len, section_text, max_chars) ==
    current_len + Len(section_text) + 1 <= max_chars

\* pack_sections, lines 100-119, from the state the loop is in
RECURSIVE pack_loop(_, _, _, _, _, _, _, _)
pack_loop(sections, prefix, max_chars, step, chunks, buf_body, current_len, n) ==
    LET closed == Append(chunks, Chunk(strip(join(<<NL>>, buf_body)), n, step))
    IN IF sections = <<>>
       THEN IF buf_body # <<>> THEN closed ELSE chunks
       ELSE LET section_text ==
                    make_prefixed_chunk(
                        WithTitle(prefix, Head(sections).title),
                        Head(sections).body)
            IN IF buf_body = <<>>
               THEN pack_loop(Tail(sections), prefix, max_chars, step, chunks,
                              splitlines(section_text), Len(section_text), 1)
               ELSE IF pack_fits(current_len, section_text, max_chars)
               THEN pack_loop(Tail(sections), prefix, max_chars, step, chunks,
                              buf_body \o splitlines(section_text),
                              current_len + Len(section_text) + 1, n + 1)
               ELSE pack_loop(Tail(sections), prefix, max_chars, step, closed,
                              splitlines(section_text), Len(section_text), 1)

\* A packer without lines 117-118: the buffer that is open when the units
\* end is not emitted.
pack_sections_no_final_flush(sections, prefix, max_chars, step) ==
    LET all == pack_loop(sections, prefix, max_chars, step, <<>>, <<>>, 0, 0)
    IN SubSeq(all, 1, Len(all) - 1)

\* pack_sections(sections, prefix); max_chars is the enclosing call's
pack_sections(sections, prefix, max_chars, step) ==
    pack_loop(sections, prefix, max_chars, step, <<>>, <<>>, 0, 0)

\* [(None, [p]) for p in "\n".join(body).split("\n\n") if p.strip()]
paras(body) ==
    LET ps == SelectSeq(split(join(<<NL>>, body), <<NL, NL>>),
                        LAMBDA p : strip(p) # <<>>)
    IN [i \in 1..Len(ps) |-> [title |-> None, body |-> <<ps[i]>>]]

\* The chunks of several calls, one after the other.
RECURSIVE Flatten(_)
Flatten(ss) == IF ss = <<>> THEN <<>> ELSE Head(ss) \o Flatten(Tail(ss))

\* lines 139-158: the chunks of a level-2 section that does not fit.  The
\* paragraph chunks of every oversized level-3 section are appended to
\* final_chunks inside the loop (line 156), the packed fitting sections after
\* the loop (line 158).
split_h3(h2_prefix, h2_body, max_chars) ==
    LET h3_sections == sectionize(h2_body, H3Marker)
        h3_prefix(sec) == WithTitle(h2_prefix, sec.title)
        fits(sec) ==
            Len(make_prefixed_chunk(h3_prefix(sec), sec.body)) <= max_chars
        h3_chunks == SelectSeq(h3_sections, fits)
        oversized == SelectSeq(h3_sections, LAMBDA sec : ~fits(sec))
    IN IF h3_sections = <<>>
       THEN pack_sections(paras(h2_body), h2_prefix, max_chars, "para")
       ELSE Flatten([i \in 1..Len(oversized) |->
                       pack_sections(paras(oversized[i].body),
                                     h3_prefix(oversized[i]), max_chars, "para")])
            \o pack_sections(h3_chunks, h2_prefix, max_chars, "h3")

\* lines 130-158: the chunks of one level-2 section
split_h2(h1, sec, max_chars) ==
    LET h2_prefix == WithTitle(IF Truthy(h1) THEN <<h1>> ELSE <<>>, sec.title)
        h2_text == make_prefixed_chunk(h2_prefix, sec.body)
    IN IF Len(h2_text) <= max_chars THEN <<Chunk(h2_text, 1, "h2")>>
       ELSE split_h3(h2_prefix, sec.body, max_chars)

Raised == [raised |-> TRUE, chunks |-> <<>>, called |-> TRUE]
Returned(chunks) == [raised |-> FALSE, chunks |-> chunks, called |-> TRUE]

\* split_into_hierarchical_chunks(doc_location, text, max_chars).  Line 71
\* adds h1 to a str before anything else is done, and h1 is None when no line
\* starts with "# ": that is a TypeError, whatever the length of the text.
split_into_hierarchical_chunks(doc_location, t, max_chars) ==
    LET lines == splitlines(t)
        titles == SelectSeq(lines, LAMBDA ln : startswith(ln, H1Marker))
        h1_line == IF titles = <<>> THEN None ELSE strip(titles[1])
        h1 == LinkLine(doc_location) \o <<NL, NL>> \o h1_line
        h2_sections == sectionize(lines, H2Marker)
    IN IF h1_line = None THEN Raised
       ELSE IF Len(t) <= max_chars THEN Returned(<<Chunk(strip(t), 1, "whole")>>)
       ELSE Returned(Flatten([i \in 1..Len(h2_sections) |->
                                split_h2(h1, h2_sections[i], max_chars)]))

\* ------------------------------------------- the chunking function at work

\* Most lines a document has.
MaxLines == 5
\* max_chars of the call (5000 in process_file, scaled down).
MaxChars == 80

\* parse_link_from_filename("a.md")
Link == <<"a">>

\* n times the character c
Run(c, n) == [i \in 1..n |-> c]

\* The lines documents are made of: a level-1, a level-2 and a level-3
\* heading, a short and a medium line of text, a line that is longer than
\* max_chars on its own, and the empty line.
TitleLine == <<"#", " ", "T">>
IntroLine == <<"#", "#", " ", "I">>
SubLine == <<"#", "#", "#", " ", "a">>
ShortLine == <<"a", "a">>
MediumLine == Run("m", MaxChars \div 2)
LongLine == Run("x", MaxChars + 1)
Palette == {TitleLine, IntroLine, SubLine, ShortLine, MediumLine, LongLine, <<>>}

\* The documents: up to MaxLines lines of the palette, in any order.
Documents ==
    {join(<<NL>>, ls) : ls \in UNION {[1..n -> Palette] : n \in 0..MaxLines}}

pipeline_vars == <<resources, progress_file, output_log, synced, run, pc,
                   done_filenames, futures, yielded, lock, saves,
                   checkpoint_at_start, log_at_start>>

InitChunk ==
    /\ text \in Documents
    /\ result = NotCalled
    /\ resources = {}
    /\ progress_file = Absent
    /\ output_log = <<>>
    /\ synced = 0
    /\ run = 0
    /\ pc = "idle"
    /\ done_filenames = {}
    /\ futures = <<>>
    /\ yielded = {}
    /\ lock = NoOne
    /\ saves = 0
    /\ checkpoint_at_start = Absent
    /\ log_at_start = 0

\* process_file, line 252: the call of the chunking function on the text.
CallChunker ==
    /\ ~result.called
    /\ result' = split_into_hierarchical_chunks(Link, text, MaxChars)
    /\ UNCHANGED text
    /\ UNCHANGED pipeline_vars

NextChunk == CallChunker

SpecChunk == InitChunk /\ [][NextChunk]_vars

\* ------------------------------------------------- the claims on chunking

\* The call has returned a list of chunks.
HasReturned == result.called /\ ~result.raised

\* The texts of the returned chunks, in order.
ChunkTexts == [i \in 1..Len(result.chunks) |-> result.chunks[i].text]

\* C12 (whole-document short-circuit), as claimed: for any text, with or
\* without a level-1 heading, that is not longer than max_chars the call
\* returns exactly [text.strip()].
C12_ShortCircuit ==
    (result.called /\ Len(text) <= MaxChars) =>
        /\ ~result.raised
        /\ ChunkTexts = <<strip(text)>>

\* No line of the text starts with a heading marker.
NoHeadings(t) ==
    \A i \in 1..Len(splitlines(t)) :
        /\ ~startswith(splitlines(t)[i], H1Marker)
        /\ ~startswith(splitlines(t)[i], H2Marker)
        /\ ~startswith(splitlines(t)[i], H3Marker)

\* C13 (a document without headings), as claimed: a text with no heading
\* marker is chunked without a fault, and when it is longer than max_chars
\* every chunk comes from paragraph packing and is within max_chars unless it
\* holds a single paragraph.
C13_NoHeadingsChunked ==
    (result.called /\ NoHeadings(text)) =>
        /\ ~result.raised
        /\ Len(text) > MaxChars =>
              \A i \in 1..Len(result.chunks) :
                  /\ result.chunks[i].of = "para"
                  /\ Len(result.chunks[i].text) > MaxChars =>
                        result.chunks[i].units = 1

IsHeading(ln) ==
    startswith(ln, H1Marker) \/ startswith(ln, H2Marker) \/ startswith(ln, H3Marker)

\* The lines of the text that are neither headings nor empty, in order.
BodyLines(t) == SelectSeq(splitlines(t), LAMBDA ln : ln # <<>> /\ ~IsHeading(ln))

\* The lines of all returned chunks, one chunk after the other.
OutputLines == Flatten([i \in 1..Len(result.chunks) |->
                          splitlines(result.chunks[i].text)])

\* a is found in b, in order (b may hold more)
RECURSIVE Embeds(_, _)
Embeds(a, b) == IF a = <<>> THEN TRUE
                ELSE IF b = <<>> THEN FALSE
                ELSE IF Head(a) = Head(b) THEN Embeds(Tail(a), Tail(b))
                ELSE Embeds(a, Tail(b))

\* C15 (coverage), as claimed: the chunks, read one after the other, hold
\* every line of the text that is not a heading (empty lines aside) in the
\* order of the text.
C15_CoverageInOrder == HasReturned => Embeds(BodyLines(text), OutputLines)

\* Where the lines equal to ln stand in the text.
PositionsOf(ln, t) == {k \in 1..Len(splitlines(t)) : splitlines(t)[k] = ln}

\* C16 (document order), as claimed: of two chunks, the text lines of the
\* earlier one stand before the text lines of the later one in the source
\* (for lines that are not headings and occur once in the source).
C16_DocumentOrder ==
    HasReturned =>
        \A i, j \in 1..Len(result.chunks) :
            i < j =>
                \A a \in Range(splitlines(result.chunks[i].text)),
                   b \in Range(splitlines(result.chunks[j].text)) :
                    (/\ ~IsHeading(a) /\ ~IsHeading(b)
                     /\ Cardinality(PositionsOf(a, text)) = 1
                     /\ Cardinality(PositionsOf(b, text)) = 1)
                    => \A ka \in PositionsOf(a, text),
                          kb \in PositionsOf(b, text) : ka <= kb

\* The lines of the text before its first level-2 heading.
RECURSIVE Preamble(_)
Preamble(lines) == IF lines = <<>> \/ startswith(Head(lines), H2Marker) THEN <<>>
                   ELSE <<Head(lines)>> \o Preamble(Tail(lines))

\* The text is the level-1 title line, empty lines, and level-2 sections.
TitleOnlyPreamble(t) ==
    /\ \E k \in 1..Len(splitlines(t)) : startswith(splitlines(t)[k], H2Marker)
    /\ \E k \in 1..Len(Preamble(splitlines(t))) :
          startswith(Preamble(splitlines(t))[k], H1Marker)
    /\ \A k \in 1..Len(Preamble(splitlines(t))) :
          \/ Preamble(splitlines(t))[k] = <<>>
          \/ startswith(Preamble(splitlines(t))[k], H1Marker)

\* The level-2 sections of the text, and whether each has at most one line of
\* text in it (so that it fits or cannot be divided).
TitledSections(t) ==
    SelectSeq(sectionize(splitlines(t), H2Marker), LAMBDA sec : Truthy(sec.title))
Indivisible(sec) ==
    Len(SelectSeq(sec.body, LAMBDA ln : ln # <<>>)) <= 1

\* C17 (the title line makes no chunk of its own), as claimed: for a text
\* longer than max_chars whose lines before the first level-2 heading are the
\* title line and empty lines, the first chunk is the first level-2 section,
\* and there is one chunk per level-2 section when none can be divided.
C17_NoChunkForTitle ==
    (HasReturned /\ Len(text) > MaxChars /\ TitleOnlyPreamble(text)) =>
        /\ TitledSections(text)[1].title
               \in Range(splitlines(result.chunks[1].text))
        /\ (\A k \in 1..Len(TitledSections(text)) :
                Indivisible(TitledSections(text)[k]))
           => Len(result.chunks) = Len(TitledSections(text))

\* C18 (termination with a non-empty result), as claimed: every call returns
\* a list of at least one chunk.
C18_ReturnsNonEmpty ==
    result.called => (~result.raised /\ Len(result.chunks) >= 1)

\* C20 (header context once, then the body), as claimed, in what it says of
\* the header context: outside the short-circuit every chunk starts with the
\* link line, which stands nowhere else in it, and holds no level-2 title and
\* no level-3 title twice.
C20_HeaderOnce ==
    (HasReturned /\ Len(text) > MaxChars) =>
        \A i \in 1..Len(result.chunks) :
            LET ls == splitlines(result.chunks[i].text)
            IN /\ ls[1] = LinkLine(Link)
               /\ \A k \in 2..Len(ls) : ls[k] # LinkLine(Link)
               /\ \A k, m \in 1..Len(ls) :
                     (k < m /\ ls[k] = ls[m]) =>
                         (~startswith(ls[k], <<"#", "#">>))

\* ----------------------------------------------- the claims on process_file

\* How many lines of file p this run has written above line i.
RankOf(p, i) == Cardinality({j \in LinesOf(p) : j < i})

\* C19 (monotonic sequencing): the lines a task has written are, from the top
\* of the log down, the records of chunk 0, 1, ... of its file, each with
\* seq_num equal to its rank and with the file's base name as document_name,
\* and a task that returned has written one line per chunk, k in all.
C19_MonotonicSeq ==
    RunStarted =>
        \A p \in DOMAIN futures :
            /\ \A i \in LinesOf(p) :
                  /\ output_log[i].seq_num = RankOf(p, i)
                  /\ output_log[i].chunk = <<p, RankOf(p, i)>>
                  /\ output_log[i].document_name = PathName(p)
            /\ futures[p].st = "returned" =>
                  {output_log[i].seq_num : i \in LinesOf(p)}
                      = 0..(ChunkCount(p) - 1)

\* The long file b/1 has returned: its records 0..MaxChunks-1 are in the log,
\* after those of another file.
C19_Witness ==
    /\ RunStarted
    /\ <<"b", 1>> \in DOMAIN futures
    /\ futures[<<"b", 1>>].st = "returned"
    /\ Cardinality(LinesOf(<<"b", 1>>)) = MaxChunks
    /\ \E i \in LinesOf(<<"b", 1>>) : i > log_at_start + 1

\* ---------------------------------------- documents whose lines are marked

\* What a line of a marked document can be.
Kinds == {"h1", "h2", "h3", "short", "long", "blank"}

\* The mark of the k-th line: every heading and every line of text of a marked
\* document differs from all others, so that a line of a chunk is known to be
\* one line of the source.
Letter(k) == <<"b", "c", "d", "e", "f", "g", "h", "i">>[k]

MarkedLine(kind, k) ==
    IF kind = "h1" THEN H1Marker \o <<Letter(k)>>
    ELSE IF kind = "h2" THEN H2Marker \o <<Letter(k)>>
    ELSE IF kind = "h3" THEN H3Marker \o <<Letter(k)>>
    ELSE IF kind = "short" THEN Run(Letter(k), 2)
    ELSE IF kind = "long" THEN Run(Letter(k), MaxChars + 1)
    ELSE <<>>

\* What the first line of a marked document is: the title, or a line of text
\* with the title further down.
FirstKinds == {"h1", "short"}

\* The marked documents: up to MaxLines lines of any kind after the first.
MarkedDocuments ==
    {join(<<NL>>, [k \in 1..Len(ks) |-> MarkedLine(ks[k], k)]) :
        ks \in {js \in UNION {[1..n -> Kinds] : n \in 0..MaxLines} :
                    js # <<>> => js[1] \in FirstKinds}}

InitHeaders ==
    /\ text \in MarkedDocuments
    /\ result = NotCalled
    /\ resources = {}
    /\ progress_file = Absent
    /\ output_log = <<>>
    /\ synced = 0
    /\ run = 0
    /\ pc = "idle"
    /\ done_filenames = {}
    /\ futures = <<>>
    /\ yielded = {}
    /\ lock = NoOne
    /\ saves = 0
    /\ checkpoint_at_start = Absent
    /\ log_at_start = 0

SpecHeaders == InitHeaders /\ [][NextChunk]_vars

\* The last line before position k of ls that starts with marker (0: none).
LastBefore(ls, k, marker) ==
    LET found == {j \in 1..(k - 1) : startswith(ls[j], marker)}
    IN IF found = {} THEN 0 ELSE CHOOSE j \in found : \A m \in found : m <= j

\* The level-3 heading a line at k stands under: the last one before it that
\* comes after the last level-2 heading (0: none).
SubBefore(ls, k) ==
    IF LastBefore(ls, k, H3Marker) > LastBefore(ls, k, H2Marker)
    THEN LastBefore(ls, k, H3Marker) ELSE 0

\* A line of text: not empty, no heading, not the link line.
IsContent(ln) == ln # <<>> /\ ~IsHeading(ln) /\ ln # LinkLine(Link)

\* The first level-1 heading of the lines.
FirstTitle(ls) == SelectSeq(ls, LAMBDA ln : startswith(ln, H1Marker))[1]

\* C21 (header-context propagation): for a text longer than max_chars every
\* returned chunk begins with the link line and the level-1 title, and every
\* line of text in a chunk stands there under the level-2 title it stands
\* under in the source and, below that, under its level-3 title: no title is
\* left out and none is exchanged for another.
C21_HeadersPropagate ==
    (HasReturned /\ Len(text) > MaxChars) =>
        \A i \in 1..Len(result.chunks) :
            LET ls == splitlines(result.chunks[i].text)
                src == splitlines(text)
            IN /\ Len(ls) >= 3
               /\ ls[1] = LinkLine(Link)
               /\ ls[2] = <<>>
               /\ ls[3] = FirstTitle(src)
               /\ \A k \in 1..Len(ls) :
                     IsContent(ls[k]) =>
                        \A at \in PositionsOf(ls[k], text) :
                            LET x == LastBefore(src, at, H2Marker)
                                y == SubBefore(src, at)
                                cx == LastBefore(ls, k, H2Marker)
                                cy == SubBefore(ls, k)
                            IN /\ (x = 0) = (cx = 0)
                               /\ x > 0 => ls[cx] = src[x]
                               /\ (y = 0) = (cy = 0)
                               /\ y > 0 => ls[cy] = src[y]

\* A chunk that is not the first one holds a line of text under a level-2
\* title and, below it, a level-3 title.
C21_Witness ==
    /\ HasReturned
    /\ Len(text) > MaxChars
    /\ \E i \in 2..Len(result.chunks) :
          LET ls == splitlines(result.chunks[i].text)
          IN \E k \in 1..Len(ls) :
                /\ IsContent(ls[k])
                /\ SubBefore(ls, k) > 0
                /\ LastBefore(ls, k, H2Marker) > 0

\* --------------------------------------------------- sectionize at work

\* A level-2 heading with a blank after its title.
PaddedLine == <<"#", "#", " ", "J", " ">>

\* The lines the sectionizer is given: level-2 headings (one ending in a
\* blank), a level-3 heading, a line of text, the empty line.
SectionPalette == {IntroLine, PaddedLine, SubLine, ShortLine, <<>>}

SectionDocuments ==
    {join(<<NL>>, ls) :
        ls \in UNION {[1..n -> SectionPalette] : n \in 0..MaxLines}}

InitSectionize ==
    /\ text \in SectionDocuments
    /\ result = NotCalled
    /\ resources = {}
    /\ progress_file = Absent
    /\ output_log = <<>>
    /\ synced = 0
    /\ run = 0
    /\ pc = "idle"
    /\ done_filenames = {}
    /\ futures = <<>>
    /\ yielded = {}
    /\ lock = NoOne
    /\ saves = 0
    /\ checkpoint_at_start = Absent
    /\ log_at_start = 0

\* lines 126 and 139: sectionize on the lines, at level 2 or at level 3.
CallSectionize ==
    /\ ~result.called
    /\ \E marker \in {H2Marker, H3Marker} :
          result' = [called |-> TRUE, raised |-> FALSE, chunks |-> <<>>,
                     marker |-> marker,
                     sections |-> sectionize(splitlines(text), marker)]
    /\ UNCHANGED text
    /\ UNCHANGED pipeline_vars

NextSectionize == CallSectionize

SpecSectionize == InitSectionize /\ [][NextSectionize]_vars

\* ------------------------------------------------ the claims on sectionize

\* The pairs written out again: the title, when there is one, then the body.
Rebuild(sections) ==
    Flatten([i \in 1..Len(sections) |->
               (IF Truthy(sections[i].title) THEN <<sections[i].title>> ELSE <<>>)
               \o sections[i].body])

\* Only the first pair can be without a title, and there is one pair with a
\* title per marker line.
PairsPerMarker(sections, lines, marker) ==
    /\ \A i \in 2..Len(sections) : Truthy(sections[i].title)
    /\ Cardinality({i \in 1..Len(sections) : Truthy(sections[i].title)})
          = Cardinality({k \in 1..Len(lines) : startswith(lines[k], marker)})

\* C22 (sectionizer round trip), as claimed: the pairs written out again are
\* the original lines.
C22_RoundTrip ==
    result.called =>
        /\ Rebuild(result.sections) = splitlines(text)
        /\ PairsPerMarker(result.sections, splitlines(text), result.marker)

\* The lines with every marker line trimmed.
TrimmedMarkers(lines, marker) ==
    [k \in 1..Len(lines) |->
        IF startswith(lines[k], marker) THEN strip(lines[k]) ELSE lines[k]]

\* C22, amended: the pairs written out again are the original lines with
\* every marker line trimmed of the blanks at its end; no line is dropped or
\* moved, only the first pair can be without a title, and every marker line
\* starts exactly one pair.
C22_RoundTripTrimmed ==
    result.called =>
        /\ Rebuild(result.sections)
              = TrimmedMarkers(splitlines(text), result.marker)
        /\ PairsPerMarker(result.sections, splitlines(text), result.marker)

\* Lines before the first marker, then a marker line that ends in a blank and
\* has a body: the title of the second pair is the trimmed line.
C22_Witness ==
    /\ result.called
    /\ result.marker = H2Marker
    /\ Len(result.sections) >= 2
    /\ ~Truthy(result.sections[1].title)
    /\ result.sections[2].title = strip(PaddedLine)
    /\ result.sections[2].body # <<>>
    /\ PaddedLine \in Range(splitlines(text))

\* ------------------------------------------- the claims on the scheduler

\* The state of the document at p in the run that is going on.
DocState(f, p) ==
    IF p \notin DOMAIN f THEN "NOT_PENDING"
    ELSE IF f[p].st = "queued" THEN "PENDING"
    ELSE IF f[p].st \in {"built", "writing", "hung"} THEN "IN_PROGRESS"
    ELSE IF f[p].st = "returned" THEN "DONE"
    ELSE "FAILED"

\* The moves of a document within a run.  A task that raises before it has
\* built its records is taken by a worker and fails in one step (BeginTask):
\* that is PENDING, IN_PROGRESS, FAILED with nothing in between.
DocMoves == {<<"PENDING", "IN_PROGRESS">>, <<"PENDING", "FAILED">>,
             <<"IN_PROGRESS", "DONE">>, <<"IN_PROGRESS", "FAILED">>}

\* C23 (per-document state machine): in every step of a run every document
\* keeps its state or makes one of the moves PENDING to IN_PROGRESS to DONE or
\* FAILED; DONE and FAILED are never left, and a document that was not pending
\* when the run started gets no task.
C23_StateMachine ==
    [][(run' = run /\ pc' # "crashed") =>
          \A p \in AllPaths :
              \/ DocState(futures', p) = DocState(futures, p)
              \/ <<DocState(futures, p), DocState(futures', p)>> \in DocMoves]_vars

\* One run with a document DONE, one FAILED and one IN_PROGRESS.
C23_Witness ==
    /\ DOMAIN futures = AllPaths
    /\ DocState(futures, <<"a", 1>>) = "DONE"
    /\ DocState(futures, <<"a", 2>>) = "FAILED"
    /\ DocState(futures, <<"b", 1>>) = "IN_PROGRESS"

\* ------------------------------------------------- a task that never ends

Hung == {p \in DOMAIN futures : futures[p].st = "hung"}

\* A free thread takes a queued task, and the task never comes back from a
\* call it makes before its records are built (process_file, lines 247-248:
\* the read, the summary).  At most one task does so.
Hang(p) ==
    /\ Alive
    /\ p \in DOMAIN futures
    /\ futures[p].st = "queued"
    /\ Cardinality(Running) < MAX_WORKERS
    /\ Hung = {}
    /\ futures' = [futures EXCEPT ![p].st = "hung"]
    /\ UNCHANGED chunker_vars
    /\ UNCHANGED <<resources, progress_file, output_log, synced, run, pc,
                   done_filenames, yielded, lock, saves,
                   checkpoint_at_start, log_at_start>>

\* The pipeline without a kill of the process, with a task that can hang.
NextHang ==
    \/ \E tree \in SUBSET AllPaths : StartRun(tree)
    \/ \E p \in AllPaths : Collect(p)
    \/ SaveOpen
    \/ SaveWrite
    \/ ExitLoop
    \/ ShutdownDone
    \/ \E p \in AllPaths : BeginTask(p)
    \/ \E p \in AllPaths : Hang(p)
    \/ \E p \in AllPaths : Acquire(p)
    \/ \E p \in AllPaths : WriteLine(p)
    \/ \E p \in AllPaths : WriteFault(p)
    \/ \E p \in AllPaths : FinishTask(p)

\* The threads run: the coordinator takes a completion that is there and
\* finishes a save it began, a free worker takes a queued task, a task that
\* has its records appends them when the lock is free.
FairRun ==
    /\ WF_vars(\E p \in AllPaths : Collect(p))
    /\ WF_vars(SaveOpen)
    /\ WF_vars(SaveWrite)
    /\ WF_vars(ExitLoop)
    /\ WF_vars(ShutdownDone)
    /\ WF_vars(\E p \in AllPaths : BeginTask(p) \/ Hang(p))
    /\ WF_vars(\E p \in AllPaths : Acquire(p))
    /\ WF_vars(\E p \in AllPaths : WriteLine(p) \/ WriteFault(p))
    /\ WF_vars(\E p \in AllPaths : FinishTask(p))

SpecHang == Init /\ [][NextHang]_vars /\ FairRun

\* The position of a document's task in the current run.
StOf(p) == IF p \in DOMAIN futures THEN futures[p].st ELSE "none"

\* C24 (a hung task costs one worker only), as claimed: in a run in which a
\* task hangs, every other pending document is eventually taken by a worker,
\* and every document whose task succeeds is eventually in the persisted
\* checkpoint.
C24_HungTaskIsolated ==
    \A p \in AllPaths :
        /\ []((Hung # {} /\ StOf(p) = "queued") => <>(StOf(p) # "queued"))
        /\ []((Hung # {} /\ StOf(p) = "returned")
                => <>(PathName(p) \in CheckpointNames(progress_file)))

\* ------------------------------------- runs repeated over a failing file

\* The file whose task raises in every run (a text with no "# " line raises
\* at line 71 each time it is chunked); no other file has its name.
Poison == <<"a", 2>>

\* main is started again over the same tree after the run before has ended
\* (lines 282-309).  The lines earlier runs appended stay in OUTPUT_FILE and
\* no step of main or of a task reads them: the log of the model holds the
\* lines of the current run, and runs are counted up to MaxRuns.
StartAgain ==
    /\ Stopped
    /\ resources' = AllPaths
    /\ run' = IF run < MaxRuns THEN run + 1 ELSE run
    /\ yielded' = {}
    /\ saves' = 0
    /\ lock' = NoOne
    /\ checkpoint_at_start' = progress_file
    /\ output_log' = <<>>
    /\ synced' = 0
    /\ log_at_start' = 0
    /\ LET r == load_progress(progress_file) IN
         IF r.raised
         THEN /\ pc' = "aborted"
              /\ done_filenames' = {}
              /\ futures' = <<>>
         ELSE LET todo == files_to_process(AllPaths, r.value) IN
              /\ done_filenames' = r.value
              /\ futures' = [p \in todo |-> [st |-> "queued", written |-> 0]]
              /\ pc' = IF todo = {} THEN "done" ELSE "loop"
    /\ UNCHANGED chunker_vars
    /\ UNCHANGED progress_file

\* process_file up to append_records, on files whose outcome is the same in
\* every run: the failing file raises, every other file's records are built.
BeginTaskAgain(p) ==
    /\ BeginTask(p)
    /\ futures'[p].st = IF p = Poison THEN "raised" ELSE "built"

\* The for loop of main never runs to its end here: the failing file is
\* pending in every run, and its completion leaves the loop by the exception.
NextRetry ==
    \/ StartAgain
    \/ \E p \in AllPaths : Collect(p)
    \/ SaveOpen
    \/ SaveWrite
    \/ ShutdownDone
    \/ \E p \in AllPaths : BeginTaskAgain(p)
    \/ \E p \in AllPaths : Acquire(p)
    \/ \E p \in AllPaths : WriteLine(p)
    \/ \E p \in AllPaths : FinishTask(p)

\* The threads run, and whoever runs the pipeline starts it again each time
\* it has ended.
FairRetry ==
    /\ WF_vars(StartAgain)
    /\ WF_vars(\E p \in AllPaths : Collect(p))
    /\ WF_vars(SaveOpen)
    /\ WF_vars(SaveWrite)
    /\ WF_vars(ShutdownDone)
    /\ WF_vars(\E p \in AllPaths : BeginTaskAgain(p))
    /\ WF_vars(\E p \in AllPaths : Acquire(p))
    /\ WF_vars(\E p \in AllPaths : WriteLine(p))
    /\ WF_vars(\E p \in AllPaths : FinishTask(p))

SpecRetry == Init /\ [][NextRetry]_vars /\ FairRetry

\* C25 (a failing document starves no other), as claimed: over runs repeated
\* for ever in which one document fails each time, the name of every other
\* document is eventually in the persisted checkpoint, whatever the order of
\* the completions.
C25_OthersEventuallySaved ==
    \A p \in AllPaths \ {Poison} :
        <>(PathName(p) \in CheckpointNames(progress_file))

\* ------------------------------------------------- pack_sections at work

\* Most units one call of pack_sections is given.
MaxUnits == 4

\* h1 as line 71 leaves it, for the link and the title of the documents above.
PackH1 == LinkLine(Link) \o <<NL, NL>> \o TitleLine

\* The prefixes of the calls: [h1] (line 135) and [h1, h2_title] (lines 153
\* and 158).
PackPrefixes == {<<PackH1>>, <<PackH1, IntroLine>>}

\* A line with which a short unit's rendering fills the buffer under [h1] to
\* max_chars exactly, and a line that is one character longer.
FitLine == Run("f", MaxChars - 2 * Len(PackH1) - Len(ShortLine) - 3)
OverLine == Run("g", MaxChars - 2 * Len(PackH1) - Len(ShortLine) - 2)

\* The units: the untitled pair with no lines (what sectionize returns for
\* the lines before a heading when there are none), a short paragraph, a
\* paragraph that begins with a line break, the two lines above, a titled
\* section with an empty line in its body, and a unit that is larger than
\* max_chars alone.
PackUnits ==
    { [title |-> None, body |-> <<>>],
      [title |-> None, body |-> <<ShortLine>>],
      [title |-> None, body |-> <<<<NL>> \o ShortLine>>],
      [title |-> None, body |-> <<FitLine>>],
      [title |-> None, body |-> <<OverLine>>],
      [title |-> SubLine, body |-> <<ShortLine, <<>>, ShortLine>>],
      [title |-> None, body |-> <<LongLine>>] }

PackInputs == UNION {[1..n -> PackUnits] : n \in 0..MaxUnits}

\* lines 135, 153, 158: pack_sections on a list of units under a prefix.
CallPack ==
    /\ ~result.called
    /\ \E sections \in PackInputs, prefix \in PackPrefixes :
          result' = [called |-> TRUE, raised |-> FALSE,
                     sections |-> sections, prefix |-> prefix,
                     chunks |-> pack_sections(sections, prefix, MaxChars,
                                              "h2")]
    /\ UNCHANGED text
    /\ UNCHANGED pipeline_vars

NextPack == CallPack

SpecPack == Init /\ [][NextPack]_vars

\* ------------------------------------------------- the claims on packing

\* The text of a unit under the prefix of the call.
Rendered(k) ==
    make_prefixed_chunk(WithTitle(result.prefix, result.sections[k].title),
                        result.sections[k].body)

RECURSIVE UnitsBefore(_)
\* The number of units in the chunks before chunk i.
UnitsBefore(i) ==
    IF i = 1 THEN 0 ELSE UnitsBefore(i - 1) + result.chunks[i - 1].units

\* The renderings of units a..b, one after the other on lines of their own.
RunText(a, b) == join(<<NL>>, [k \in 1..(b - a + 1) |-> Rendered(a + k - 1)])

\* C26 (greedy packing partitions its input): the chunks are the renderings
\* of consecutive, non-empty runs of the units, the runs follow each other in
\* the order of the input and cover every unit, so each unit is in exactly one
\* chunk, whole.
C26_PackPartitions ==
    result.called =>
        LET n == Len(result.chunks) IN
        /\ UnitsBefore(n + 1) = Len(result.sections)
        /\ \A i \in 1..n :
              /\ result.chunks[i].units >= 1
              /\ result.chunks[i].text =
                    RunText(UnitsBefore(i) + 1, UnitsBefore(i + 1))

\* Four units went into more than one chunk, one of which holds several.
C26_Witness ==
    /\ result.called
    /\ Len(result.sections) = MaxUnits
    /\ Len(result.chunks) >= 2
    /\ \E i \in 1..Len(result.chunks) : result.chunks[i].units >= 2

\* C27 (greedy packing rule): the first unit opens a buffer; a later unit is
\* in the chunk of the unit before it exactly when the length of that buffer
\* as emitted, plus the length of the unit's rendering, plus 1, is at most
\* max_chars; otherwise the buffer was emitted and the unit opened the next.
C27_PackRule ==
    result.called =>
        LET n == Len(result.chunks) IN
        /\ (result.sections # <<>>) => (n >= 1 /\ UnitsBefore(2) >= 1)
        /\ \A i \in 1..n :
              LET a == UnitsBefore(i) + 1
                  b == UnitsBefore(i + 1)
              IN /\ \A k \in (a + 1)..b :
                       Len(strip(RunText(a, k - 1))) + Len(Rendered(k)) + 1
                           <= MaxChars
                 /\ (i < n) =>
                       Len(result.chunks[i].text) + Len(Rendered(b + 1)) + 1
                           > MaxChars

\* A unit joined a buffer that it fills to max_chars exactly, and the unit
\* after it, as short as the first, opened the next chunk.
C27_Witness ==
    /\ result.called
    /\ Len(result.chunks) >= 2
    /\ result.chunks[1].units = 2
    /\ Len(result.chunks[1].text) = MaxChars
    /\ Len(Rendered(3)) < Len(Rendered(2))

\* ------------------------------------------------- the offline dedup tool

\* Most lines the input file of the tool has.
MaxLog == 4

\* The lines of chunks.jsonl: records of two documents, two sequence numbers
\* and two document ids (each execution of process_file draws its own).
LogRecords ==
    [document_name : Names, seq_num : 0..1, document_id : {"u", "v"}]

LogFiles == UNION {[1..n -> LogRecords] : n \in 0..MaxLog}

\* line 14: the key of a record
KeyOf(chunk) == <<chunk.document_name, chunk.seq_num>>

\* A loop that stores the record of every line: the last one of a key stays,
\* at the place of the first.
RECURSIVE dedup_loop_keep_last(_, _)
dedup_loop_keep_last(lines, chunks_dict) ==
    IF lines = <<>> THEN chunks_dict
    ELSE LET chunk == Head(lines)
             at == {i \in 1..Len(chunks_dict) :
                        KeyOf(chunks_dict[i]) = KeyOf(chunk)}
         IN dedup_loop_keep_last(
                Tail(lines),
                IF at = {} THEN Append(chunks_dict, chunk)
                ELSE [i \in 1..Len(chunks_dict) |->
                         IF i \in at THEN chunk ELSE chunks_dict[i]])

deduplicate_chunks_keep_last(input_file) ==
    dedup_loop_keep_last(input_file, <<>>)

\* lines 11-17: the dict after the lines, as its values in insertion order
\* (a dict keeps the order in which its keys were inserted).
RECURSIVE dedup_loop(_, _)
dedup_loop(lines, chunks_dict) ==
    IF lines = <<>> THEN chunks_dict
    ELSE LET chunk == Head(lines)
             seen == \E i \in 1..Len(chunks_dict) :
                        KeyOf(chunks_dict[i]) = KeyOf(chunk)
         IN dedup_loop(Tail(lines),
                       IF seen THEN chunks_dict
                       ELSE Append(chunks_dict, chunk))

\* deduplicate_chunks(input_file, output_file): the lines written (20-24)
deduplicate_chunks(input_file) == dedup_loop(input_file, <<>>)

\* The tool is run on a log ...
CallDedup ==
    /\ ~result.called
    /\ \E input_file \in LogFiles :
          result' = [called |-> TRUE, raised |-> FALSE, chunks |-> <<>>,
                     runs |-> 1,
                     first_input |-> input_file,
                     input_file |-> input_file,
                     output_file |-> deduplicate_chunks(input_file)]
    /\ UNCHANGED text
    /\ UNCHANGED pipeline_vars

\* ... and once more on what it wrote.
DedupAgain ==
    /\ result.called
    /\ result.runs = 1
    /\ result' = [result EXCEPT
                     !.runs = 2,
                     !.input_file = result.output_file,
                     !.output_file = deduplicate_chunks(result.output_file)]
    /\ UNCHANGED text
    /\ UNCHANGED pipeline_vars

NextDedup == CallDedup \/ DedupAgain

SpecDedup == Init /\ [][NextDedup]_vars

\* The place of the first line of the input that has the key of record c.
FirstAt(c) ==
    MinOf({i \in 1..Len(result.input_file) :
              KeyOf(result.input_file[i]) = KeyOf(c)})

\* C28 (offline dedup): the output has exactly one record for each key
\* (document_name, seq_num) of the input, that record is the first line of
\* the input with the key, the records are in the order of those first
\* lines, and the tool run on its own output writes the same lines again.
C28_DedupKeepsFirst ==
    result.called =>
        LET in == result.input_file
            out == result.output_file
        IN /\ {KeyOf(out[j]) : j \in 1..Len(out)}
                 = {KeyOf(in[i]) : i \in 1..Len(in)}
           /\ \A j, k \in 1..Len(out) :
                 (KeyOf(out[j]) = KeyOf(out[k])) => (j = k)
           /\ \A j \in 1..Len(out) : out[j] = in[FirstAt(out[j])]
           /\ \A j, k \in 1..Len(out) :
                 (j < k) => (FirstAt(out[j]) < FirstAt(out[k]))
           /\ (result.runs = 2) => (out = in)

\* The log had a key twice, under two document ids, with a line of another
\* key between the two, and the tool was run again on what it wrote.
C28_Witness ==
    /\ result.called
    /\ result.runs = 2
    /\ LET in == result.first_input
       IN \E i, j, k \in 1..Len(in) :
             /\ i < j /\ j < k
             /\ KeyOf(in[i]) = KeyOf(in[k])
             /\ KeyOf(in[i]) # KeyOf(in[j])
             /\ in[i].document_id # in[k].document_id

\* ------------------------------------------------- process_file run twice

\* Most lines of the file process_file is run on.
MaxFileLines == 3

\* The files: up to MaxFileLines lines of the palette.
FileTexts ==
    {join(<<NL>>, ls) : ls \in UNION {[1..n -> Palette] : n \in 0..MaxFileLines}}

\* path.name of the files
FileNames == {<<"a", ".", "m", "d">>, <<"a", "_", "b", ".", "m", "d">>}

\* What uuid.uuid4() gives an execution: another value each time it is asked.
Entropy == {"u", "v"}

\* str.removesuffix
removesuffix(str, suffix) ==
    IF /\ Len(str) >= Len(suffix)
       /\ SubSeq(str, Len(str) - Len(suffix) + 1, Len(str)) = suffix
    THEN SubSeq(str, 1, Len(str) - Len(suffix))
    ELSE str

\* str.replace for a pattern of one character
replace(str, old, new) ==
    [i \in 1..Len(str) |-> IF str[i] = old THEN new ELSE str[i]]

\* parse_link_from_filename, line 222
parse_link_from_filename(filename) ==
    replace(removesuffix(filename, <<".", "m", "d">>), "_", "/")

\* short_summary, line 49: the call of the model is commented out
short_summary(t) == "Official rules and acts of University of Primorska"

\* extract_keywords, line 231
extract_keywords(name) == <<"rules", "act", "upr.si">>

\* A record whose summary is drawn anew by each execution.
RecordOf_sampled(id, name, link, seq, chunk, summary, keywords) ==
    [document_id |-> id, document_name |-> name, link |-> link,
     seq_num |-> seq, chunk |-> chunk, summary |-> id[1],
     keywords |-> keywords]

\* lines 253-262: the record of one chunk
RecordOf(id, name, link, seq, chunk, summary, keywords) ==
    [document_id |-> id, document_name |-> name, link |-> link,
     seq_num |-> seq, chunk |-> chunk, summary |-> summary,
     keywords |-> keywords]

\* process_file, lines 247-263, on a file of the given name and content: the
\* records handed to append_records, or the exception of the chunker.  Every
\* record gets a uuid4 of its own.
process_file(name, t, seed) ==
    LET summary == short_summary(t)
        link == parse_link_from_filename(name)
        keywords == extract_keywords(name)
        r == split_into_hierarchical_chunks(link, t, MaxChars)
    IN IF r.raised THEN [raised |-> TRUE, records |-> <<>>]
       ELSE [raised |-> FALSE,
             records |-> [i \in 1..Len(r.chunks) |->
                            RecordOf(<<seed, i>>, name, link, i - 1,
                                     r.chunks[i].text, summary, keywords)]]

InitProcess ==
    /\ text \in FileTexts
    /\ result = NotCalled
    /\ resources = {}
    /\ progress_file = Absent
    /\ output_log = <<>>
    /\ synced = 0
    /\ run = 0
    /\ pc = "idle"
    /\ done_filenames = {}
    /\ futures = <<>>
    /\ yielded = {}
    /\ lock = NoOne
    /\ saves = 0
    /\ checkpoint_at_start = Absent
    /\ log_at_start = 0

\* process_file is executed on the file ...
ProcessFile ==
    /\ ~result.called
    /\ \E name \in FileNames, seed \in Entropy :
          result' = [called |-> TRUE, raised |-> FALSE, chunks |-> <<>>,
                     runs |-> 1, name |-> name,
                     first |-> process_file(name, text, seed),
                     second |-> [raised |-> FALSE, records |-> <<>>]]
    /\ UNCHANGED text
    /\ UNCHANGED pipeline_vars

\* ... and executed again on the same file, unchanged.
ProcessFileAgain ==
    /\ result.called
    /\ result.runs = 1
    /\ \E seed \in Entropy :
          result' = [result EXCEPT
                        !.runs = 2,
                        !.second = process_file(result.name, text, seed)]
    /\ UNCHANGED text
    /\ UNCHANGED pipeline_vars

NextProcess == ProcessFile \/ ProcessFileAgain

SpecProcess == InitProcess /\ [][NextProcess]_vars

\* A record without its document_id.
Anonymous(rec) == [f \in DOMAIN rec \ {"document_id"} |-> rec[f]]

C30_CheckpointOnlyGrows ==
    [][CheckpointNames(progress_file) \subseteq CheckpointNames(progress_file')]_vars

\* -------------------------------------------- the claims on a task's lines

\* C31 (a task writes all or nothing): a task that has not reached
\* append_records, or that raised, has no line in the log, and a task that
\* returned has exactly one block there, holding the records of all its
\* chunks in their order, one after the other.
C31_AllOrNothing ==
    RunStarted =>
        \A p \in DOMAIN futures :
            /\ futures[p].st \in {"queued", "built", "raised", "hung"}
                  => LinesOf(p) = {}
            /\ futures[p].st = "returned" =>
                  \E start \in log_at_start..Len(output_log) :
                     /\ LinesOf(p) = (start + 1)..(start + ChunkCount(p))
                     /\ \A i \in 1..ChunkCount(p) :
                           output_log[start + i] = BlockOf(p)[i]

\* A task raised while another wrote, and the log of the run holds the
\* block of the one that returned and nothing else.
C31_Witness ==
    /\ pc = "loop"
    /\ DOMAIN futures = AllPaths
    /\ futures[<<"a", 1>>].st = "raised"
    /\ futures[<<"a", 2>>].st = "writing"
    /\ futures[<<"b", 1>>].st = "returned"
    /\ Len(output_log) = log_at_start + MaxChunks

\* --------------------------------------------- the chunk-ingestion pipeline
\*
\* ingest_chunks_hype.py: main reads the chunks of deduped_chunks.jsonl, drops
\* those whose key "document_name:seq_num" is in progress.json and hands the
\* others to a pool; the loop adds to the progress set what it cuts out of each
\* task's return value and saves the set.  The pipeline has the shape of the
\* one above and is kept in its variables: resources holds all_chunks,
\* done_filenames the set done, futures a record [st, result] per chunk,
\* progress_file the file progress.json, output_log the batches upserted into
\* the Qdrant collection.

\* The document names of the chunks: one without, one with " - " in it.
PlainName == <<"a">>
DashName == <<"a", " ", "-", " ", "b">>

\* The chunks of deduped_chunks.jsonl, by what the pipeline reads of them.
IngestChunks ==
    {[document_name |-> PlainName, seq_num |-> 0],
     [document_name |-> PlainName, seq_num |-> 1],
     [document_name |-> DashName, seq_num |-> 0]}

\* str(n) for a number of one digit
str(n) == <<<<"0", "1", "2", "3", "4", "5", "6", "7", "8", "9">>[n + 1]>>

\* line 334: f"{chunk['document_name']}:{chunk['seq_num']}"
PendingKey(chunk) == chunk.document_name \o <<":">> \o str(chunk.seq_num)

\* ord(c) of the characters of the keys
ord(c) ==
    CASE c = " " -> 32 [] c = "-" -> 45 [] c = "0" -> 48 [] c = "1" -> 49
      [] c = ":" -> 58 [] c = "a" -> 97 [] c = "b" -> 98

\* a < b for two strings
StrLess(a, b) ==
    \E i \in 1..(Len(b)) :
        /\ i <= Len(a) + 1
        /\ SubSeq(a, 1, i - 1) = SubSeq(b, 1, i - 1)
        /\ (i = Len(a) + 1 \/ ord(a[i]) < ord(b[i]))

\* sorted(S) for a set of strings
RECURSIVE SortedStrings(_)
SortedStrings(S) ==
    IF S = {} THEN <<>>
    ELSE LET m == CHOOSE x \in S : \A y \in S \ {x} : StrLess(x, y)
         IN <<m>> \o SortedStrings(S \ {m})

\* load_progress, lines 77-81: the set of the strings of the file, the empty
\* set without a file; json.load raises on a file that is not a JSON text.
ingest_load_progress(f) ==
    IF f.kind = "absent" THEN [raised |-> FALSE, value |-> {}]
    ELSE IF f.kind = "json" THEN [raised |-> FALSE, value |-> Range(f.entries)]
    ELSE [raised |-> TRUE, value |-> {}]

\* save_progress, lines 83-84: the file once write_text has returned
ingest_save_progress(done) ==
    [kind |-> "json", entries |-> SortedStrings(done)]

\* lines 332-335: the chunks whose key is not in done
chunks_to_process(all_chunks, done) ==
    {chunk \in all_chunks : PendingKey(chunk) \notin done}

\* process_chunk, lines 286 and 306: the two values it returns
SkippedResult(chunk) ==
    <<"S", "k", "i", "p", "p", "e", "d", " ", "(", "n", "o", " ", "q", "u", "e", "s", "t", "i", "o", "n", "s", " ", "g", "e", "n", "e", "r", "a", "t", "e", "d", ")", " ", "-", " ">>
    \o chunk.document_name \o <<":">> \o str(chunk.seq_num)
ProcessedResult(chunk) ==
    <<"P", "r", "o", "c", "e", "s", "s", "e", "d", " ", "-", " ">>
    \o chunk.document_name \o <<":">> \o str(chunk.seq_num)

\* line 350: identifier = result.split(" - ")[1]
Identifier(res) == split(res, <<" ", "-", " ">>)[2]

\* deduped_chunks.jsonl holds any of the chunks; nothing has run.
InitIngest ==
    /\ resources \in SUBSET IngestChunks
    /\ progress_file = Absent
    /\ output_log = <<>>
    /\ synced = 0
    /\ run = 0
    /\ pc = "idle"
    /\ done_filenames = {}
    /\ futures = <<>>
    /\ yielded = {}
    /\ lock = NoOne
    /\ saves = 0
    /\ checkpoint_at_start = Absent
    /\ log_at_start = 0
    /\ text = <<>>
    /\ result = NotCalled

\* main, lines 309-345: load the progress set (an exception ends main), read
\* the chunks, return when none is pending, else submit one task per pending
\* chunk.
IngestStart ==
    /\ Stopped
    /\ run < MaxRuns
    /\ run' = run + 1
    /\ yielded' = {}
    /\ saves' = 0
    /\ checkpoint_at_start' = progress_file
    /\ log_at_start' = Len(output_log)
    /\ LET r == ingest_load_progress(progress_file) IN
         IF r.raised
         THEN /\ pc' = "aborted"
              /\ done_filenames' = {}
              /\ futures' = <<>>
         ELSE LET todo == chunks_to_process(resources, r.value) IN
              /\ done_filenames' = r.value
              /\ futures' = [chunk \in todo |->
                               [st |-> "queued", result |-> <<>>]]
              /\ pc' = IF todo = {} THEN "done" ELSE "loop"
    /\ UNCHANGED chunker_vars
    /\ UNCHANGED <<resources, progress_file, output_log, synced, lock>>

\* process_chunk, lines 276-306, in a thread of the pool: no question comes
\* back and the chunk is skipped, or the questions are embedded and upserted,
\* or one of the calls to the model, the embedder or Qdrant raises.
ProcessChunk(chunk) ==
    /\ Alive
    /\ chunk \in DOMAIN futures
    /\ futures[chunk].st = "queued"
    /\ \/ /\ futures' = [futures EXCEPT
                            ![chunk] = [st |-> "returned",
                                        result |-> SkippedResult(chunk)]]
          /\ UNCHANGED output_log
       \/ /\ futures' = [futures EXCEPT
                            ![chunk] = [st |-> "returned",
                                        result |-> ProcessedResult(chunk)]]
          /\ output_log' = Append(output_log, chunk)
       \/ /\ futures' = [futures EXCEPT ![chunk].st = "raised"]
          /\ UNCHANGED output_log
    /\ UNCHANGED chunker_vars
    /\ UNCHANGED <<resources, progress_file, synced, run, pc, done_filenames,
                   yielded, lock, saves, checkpoint_at_start, log_at_start>>

\* main, lines 346-351 and 362-364: the next completed future.  Its exception
\* is caught and the loop goes on; else the identifier cut out of its return
\* value joins the set and the set is saved.
IngestCollect(chunk) ==
    /\ pc = "loop"
    /\ chunk \in DOMAIN futures \ yielded
    /\ futures[chunk].st \in {"returned", "raised"}
    /\ yielded' = yielded \cup {chunk}
    /\ IF futures[chunk].st = "raised"
       THEN /\ pc' = "loop"
            /\ UNCHANGED done_filenames
       ELSE /\ pc' = "save"
            /\ done_filenames' =
                  done_filenames \cup {Identifier(futures[chunk].result)}
    /\ UNCHANGED chunker_vars
    /\ UNCHANGED <<resources, progress_file, output_log, synced, run, futures,
                   lock, saves, checkpoint_at_start, log_at_start>>

\* save_progress, write_text: the file is opened, which empties it ...
IngestSaveOpen ==
    /\ pc = "save"
    /\ progress_file' = Truncated
    /\ pc' = "write"
    /\ UNCHANGED chunker_vars
    /\ UNCHANGED <<resources, output_log, synced, run, done_filenames,
                   futures, yielded, lock, saves, checkpoint_at_start,
                   log_at_start>>

\* ... and the sorted array is written.
IngestSaveWrite ==
    /\ pc = "write"
    /\ progress_file' = ingest_save_progress(done_filenames)
    /\ saves' = saves + 1
    /\ pc' = "loop"
    /\ UNCHANGED chunker_vars
    /\ UNCHANGED <<resources, output_log, synced, run, done_filenames,
                   futures, yielded, lock, checkpoint_at_start, log_at_start>>

\* lines 354-361: save_progress raises, at the open (the file is as it was)
\* or at the write (the file stays empty); the exception is caught and the
\* loop goes on.
IngestSaveFault ==
    /\ pc \in {"save", "write"}
    /\ pc' = "loop"
    /\ UNCHANGED chunker_vars
    /\ UNCHANGED <<resources, progress_file, output_log, synced, run,
                   done_filenames, futures, yielded, lock, saves,
                   checkpoint_at_start, log_at_start>>

\* as_completed has yielded every future: the pool is shut down, main returns.
IngestExitLoop ==
    /\ pc = "loop"
    /\ yielded = DOMAIN futures
    /\ pc' = "done"
    /\ UNCHANGED chunker_vars
    /\ UNCHANGED <<resources, progress_file, output_log, synced, run,
                   done_filenames, futures, yielded, lock, saves,
                   checkpoint_at_start, log_at_start>>

NextIngest ==
    \/ IngestStart
    \/ \E chunk \in IngestChunks : ProcessChunk(chunk)
    \/ \E chunk \in IngestChunks : IngestCollect(chunk)
    \/ IngestSaveOpen
    \/ IngestSaveWrite
    \/ IngestSaveFault
    \/ IngestExitLoop

SpecIngest == InitIngest /\ [][NextIngest]_vars

\* ------------------------------------------------- the claims on ingestion

\* The chunks whose task returned and whose completion the loop has handled.
Completed == {chunk \in yielded : futures[chunk].st = "returned"}

\* C32 (the identifier added is the key tested), as claimed: for every chunk
\* the loop has handled after its task returned, processed or skipped, the
\* identifier cut out of the return value is the chunk's key
\* "document_name:seq_num", and the key is in the progress set.
C32_IdentifierIsKey ==
    \A chunk \in Completed :
        /\ Identifier(futures[chunk].result) = PendingKey(chunk)
        /\ PendingKey(chunk) \in done_filenames

\* C33 (a fault never stops the ingestion loop), as claimed: main ends early
\* only when the progress file cannot be loaded; a chunk whose task raised is
\* not in the progress set; every chunk whose task returned is in the
\* in-memory progress set once the loop has handled it, and is in the file
\* after every save that succeeds from then on, also after a save that failed.
C33_IngestFaultsIsolated ==
    [][/\ (pc' = "aborted") => (DOMAIN futures' = {})
       /\ \A chunk \in yielded' :
             IF futures'[chunk].st = "raised"
             THEN PendingKey(chunk) \notin done_filenames'
             ELSE PendingKey(chunk) \in done_filenames'
       /\ (pc = "write" /\ progress_file'.kind = "json") =>
             \A chunk \in Completed :
                 PendingKey(chunk) \in Range(progress_file'.entries)]_vars

\* ------------------------------------ runs repeated until nothing is left

\* main is started again over the whole tree each time it has ended (lines
\* 282-309); runs are counted up to MaxRuns.
StartOver ==
    /\ Stopped
    /\ resources' = AllPaths
    /\ run' = IF run < MaxRuns THEN run + 1 ELSE run
    /\ yielded' = {}
    /\ saves' = 0
    /\ lock' = NoOne
    /\ checkpoint_at_start' = progress_file
    /\ log_at_start' = Len(output_log)
    /\ LET r == load_progress(progress_file) IN
         IF r.raised
         THEN /\ pc' = "aborted"
              /\ done_filenames' = {}
              /\ futures' = <<>>
         ELSE LET todo == files_to_process(AllPaths, r.value) IN
              /\ done_filenames' = r.value
              /\ futures' = [p \in todo |-> [st |-> "queued", written |-> 0]]
              /\ pc' = IF todo = {} THEN "done" ELSE "loop"
    /\ UNCHANGED chunker_vars
    /\ UNCHANGED <<progress_file, output_log, synced>>

\* process_file up to append_records when the faults pass: a task can raise in
\* the first run only, every later attempt builds its records.
BeginTaskOnce(p) ==
    /\ BeginTask(p)
    /\ (futures'[p].st = "raised") => (run = 1)

NextOver ==
    \/ StartOver
    \/ \E p \in AllPaths : Collect(p)
    \/ SaveOpen
    \/ SaveWrite
    \/ ExitLoop
    \/ ShutdownDone
    \/ \E p \in AllPaths : BeginTaskOnce(p)
    \/ \E p \in AllPaths : Acquire(p)
    \/ \E p \in AllPaths : WriteLine(p)
    \/ \E p \in AllPaths : FinishTask(p)

\* The threads run, and the pipeline is started again each time it has ended.
FairOver ==
    /\ WF_vars(StartOver)
    /\ WF_vars(\E p \in AllPaths : Collect(p))
    /\ WF_vars(SaveOpen)
    /\ WF_vars(SaveWrite)
    /\ WF_vars(ExitLoop)
    /\ WF_vars(ShutdownDone)
    /\ WF_vars(\E p \in AllPaths : BeginTaskOnce(p))
    /\ WF_vars(\E p \in AllPaths : Acquire(p))
    /\ WF_vars(\E p \in AllPaths : WriteLine(p))
    /\ WF_vars(\E p \in AllPaths : FinishTask(p))

SpecOver == Init /\ [][NextOver]_vars /\ FairOver

\* The file at p has all its records in the output log.
HasOwnRecords(p) ==
    \E start \in 0..Len(output_log) :
        /\ start + ChunkCount(p) <= Len(output_log)
        /\ \A i \in 1..ChunkCount(p) : output_log[start + i] = BlockOf(p)[i]

\* C34 (every file is eventually processed), as claimed: over runs repeated
\* for ever in which the faults of tasks pass, every file under the resource
\* root, two files of one base name in two directories included, eventually
\* has its own records in the output log.
C34_EveryFileProcessed ==
    \A p \in AllPaths : <>HasOwnRecords(p)

\* ------------------------------------------- the claims on an idle run

\* C35 (a run with nothing pending): a run that loaded its checkpoint and
\* found the base name of every file of the tree in it, or found no file, has
\* ended with no task submitted, no save made, the checkpoint file as the run
\* found it and no line added to the output log.
C35_NothingPending ==
    (/\ RunStarted
     /\ checkpoint_at_start.kind # "partial"
     /\ NamesOf(resources) \subseteq StartSet) =>
        /\ pc = "done"
        /\ DOMAIN futures = {}
        /\ yielded = {}
        /\ saves = 0
        /\ progress_file = checkpoint_at_start
        /\ Len(output_log) = log_at_start

\* The second run over the whole tree, all of whose names the first run has
\* saved: it has ended at once, over a log that holds the first run's lines.
C35_Witness ==
    /\ run = MaxRuns
    /\ pc = "done"
    /\ resources = AllPaths
    /\ StartSet = Names
    /\ DOMAIN futures = {}
    /\ Len(output_log) > 0

====
